---------------------------- MODULE Spec2Model ----------------------------
(***************************************************************************)
(* Batch run / resume / interrupt state machine of the copier application. *)
(*                                                                         *)
(* Three specifications share the model of the background runner thread:   *)
(*   SpecRunner  RsyncRunner alone (src/rsync_runner.py), driven through   *)
(*               run_all() and interrupt();                                *)
(*   Spec        AppCoordinator + RsyncProcessManager + AppState           *)
(*               (src/src/copier) driving RsyncRunner;                     *)
(*   SpecLegacy  RsyncController + StateManager (src/rsync_controller.py,  *)
(*               src/state_manager.py) driving RsyncRunner.                *)
(* Two more stand alone:                                                   *)
(*   SpecState   AppState / StateManager, its methods called directly;     *)
(*   SpecCommand RsyncCommandBuilder.build_command over option mappings.   *)
(***************************************************************************)
EXTENDS Integers, Sequences, FiniteSets, TLC

\* ------------------------------------------------------------------ bounds
\* Number of distinct source paths the user can add.
MaxPaths == 3
\* Number of run_all() calls that start a thread.
MaxRuns == 2
\* Loop iterations the runner threads begin in all.
MaxItems == 4
\* Faults in all: a missing source, a Popen that fails, an exception in the
\* thread, a subprocess that exits nonzero by itself.
MaxFaults == 1
\* Output lines the subprocesses print in all (SpecRunner; in the other
\* specifications the subprocesses print nothing).
MaxLines == 1
\* Calls of the input handlers (sources, destination, options) in all.
MaxEdits == 2
\* Steps taken while two runs overlap: the thread of the earlier one is alive,
\* or its finished event is not yet taken from the queue, when the later starts.
MaxOverlap == 1
\* Calls of interrupt(), and of run_all() on a running runner, per thread.
MaxCalls == 1

PathIds == 1..MaxPaths
RunnerIds == 1..MaxRuns

VARIABLES
    arch,          \* which wiring owns the runner: "runner", "app" or "legacy"
    runners,       \* RunnerIds -> RsyncRunner object with its thread and subprocess
    nruns,         \* number of runner threads started so far
    log_queue,     \* the queue.Queue shared by the runner(s) and the poller
    main,          \* position of the controlling (GUI) thread inside a handler
    runner,        \* manager.runner / controller.runner: 0 is None
    log_timer,     \* QTimer active
    status,        \* AppState._status
    rsync_available,
    sources,       \* AppState._sources / controller.source_paths
    destination,   \* 0 is None
    options,
    resume_state,  \* [last_completed_index, was_interrupted]
    last_error,    \* "None" or "msg"
    progress,      \* AppState._progress: [current_item_index, total_items]
    used,          \* how much of each budget (MaxItems, MaxFaults, ...) is used up
    overlap,       \* how much of MaxOverlap is used up
    call,          \* the last method called on AppState, StateManager or the
                   \* command builder directly: [op, arg, res]; for
                   \* set_status res is <<status, last_error>> before the call
    emitted        \* history: the values rsync_finished was emitted with for
                   \* the finished event of each run

vars == <<arch, runners, nruns, log_queue, main, runner, log_timer, status,
          rsync_available, sources, destination, options, resume_state,
          last_error, progress, used, overlap, call, emitted>>

appVars == <<runner, log_timer, status, rsync_available, sources, destination,
             options, resume_state, last_error, progress>>

\* ------------------------------------------------------------ queue events
\* The four tagged tuples RsyncRunner puts on the queue; r names the runner
\* object whose code put the event (history, not read by the program).
LogEv(r, lvl, m) ==
    [t |-> "log", lvl |-> lvl, m |-> m, i |-> 0, n |-> 0, ok |-> FALSE, r |-> r]
ProgressEv(r, i, n) ==
    [t |-> "progress", lvl |-> "", m |-> "", i |-> i, n |-> n, ok |-> FALSE, r |-> r]
ErrorEv(r, m) ==
    [t |-> "error", lvl |-> "", m |-> m, i |-> 0, n |-> 0, ok |-> FALSE, r |-> r]
FinishedEv(r, ok) ==
    [t |-> "finished", lvl |-> "", m |-> "", i |-> 0, n |-> 0, ok |-> ok, r |-> r]

\* ------------------------------------------------------------- RsyncRunner
\* RsyncRunner.__init__; the fields oc, fins, post, prog and launched are
\* history of the thread started by the last run_all():
\*   oc[i+1]   what happened to item i
\*   fins      the values of the finished events the thread put
\*   fint      the interruption flag was set when the finished event was put
\*   post      the thread put an event after a finished event
\*   prog      the indices of the progress events the thread put
\*   launched  the indices for which Popen returned a subprocess
\*   calls     interrupt() and rejected run_all() calls made on the object
NewRunner ==
    [pc |-> "idle", interrupted |-> FALSE, proc |-> "None",
     i |-> 0, start |-> 0, total |-> 0, ov |-> TRUE,
     oc |-> <<>>, fins |-> <<>>, fint |-> FALSE, post |-> FALSE, prog |-> <<>>,
     launched |-> {}, calls |-> 0]

\* RsyncRunner.is_running
is_running(rec) == rec.pc \notin {"idle", "dead"}

\* The run of runner x is not over: its thread is alive or its finished event
\* is still on the queue.
Pending(x) ==
    \/ is_running(runners[x])
    \/ \E k \in DOMAIN log_queue :
          log_queue[k].t = "finished" /\ log_queue[k].r = x

\* Every step taken while two runs overlap uses up MaxOverlap.
Step ==
    LET two == Cardinality({x \in RunnerIds : Pending(x)}) > 1
    IN /\ two => overlap + used.overlap < MaxOverlap
       /\ overlap' = IF two THEN overlap + 1 ELSE 0

\* A runner object whose thread has ended is dropped when a new RsyncRunner
\* is made: its history is not kept.
Reclaim(rs) ==
    [r \in DOMAIN rs |->
        IF rs[r].pc = "dead" THEN [NewRunner EXCEPT !.pc = "dead"] ELSE rs[r]]

\* run_all up to thread.start(): the flag is reset and _run_in_thread begins.
StartThread(rec, start, total) ==
    [rec EXCEPT !.pc = "top", !.interrupted = FALSE,
                !.i = start, !.start = start, !.total = total, !.ov = TRUE,
                !.oc = [k \in 1..total |-> "none"],
                !.fins = <<>>, !.fint = FALSE, !.post = FALSE, !.prog = <<>>,
                !.launched = {}, !.calls = 0]

\* An iteration that goes to the existence check without a progress event.
TopStep_NoProgress(rec, r) ==
    IF rec.i >= rec.total
    THEN [rec |-> [rec EXCEPT !.pc = "fin"], evs |-> <<>>]
    ELSE IF rec.interrupted
    THEN [rec |-> [rec EXCEPT !.ov = FALSE, !.pc = "fin"],
          evs |-> <<LogEv(r, "warning", "cancelled")>>]
    ELSE [rec |-> [rec EXCEPT !.pc = "exists"], evs |-> <<>>]

\* for i in range(start_index, total_sources): the interrupt check and the
\* progress event at the top of one iteration.
TopStep(rec, r) ==
    IF rec.i >= rec.total
    THEN [rec |-> [rec EXCEPT !.pc = "fin"], evs |-> <<>>]
    ELSE IF rec.interrupted
    THEN [rec |-> [rec EXCEPT !.ov = FALSE, !.pc = "fin"],
          evs |-> <<LogEv(r, "warning", "cancelled")>>]
    ELSE [rec |-> [rec EXCEPT !.pc = "exists", !.prog = Append(@, rec.i)],
          evs |-> <<ProgressEv(r, rec.i, rec.total)>>]

\* A missing source that counts as a failure of the batch.
ExistsStep_FailsBatch(rec, r, ex) ==
    IF ~ex
    THEN [rec |-> [rec EXCEPT !.oc[rec.i + 1] = "skipped", !.i = @ + 1,
                              !.ov = FALSE, !.pc = "top"],
          evs |-> <<ErrorEv(r, "missing")>>]
    ELSE [rec |-> [rec EXCEPT !.pc = "launch"], evs |-> <<>>]

\* if not os.path.exists(source_path): ... continue
ExistsStep(rec, r, ex) ==
    IF ~ex
    THEN [rec |-> [rec EXCEPT !.oc[rec.i + 1] = "skipped", !.i = @ + 1,
                              !.pc = "top"],
          evs |-> <<ErrorEv(r, "missing")>>]
    ELSE [rec |-> [rec EXCEPT !.pc = "launch"], evs |-> <<>>]

\* A launch whose FileNotFoundError is not caught: the thread ends where the
\* exception is raised, with no event.
LaunchStep_Uncaught(rec, r, how) ==
    CASE how = "ok" ->
           [rec |-> [rec EXCEPT !.proc = "running", !.pc = "read",
                                !.launched = @ \cup {rec.i}],
            evs |-> <<LogEv(r, "info", "command")>>]
      [] how = "nolaunch" ->
           [rec |-> [rec EXCEPT !.proc = "None", !.pc = "dead",
                                !.oc[rec.i + 1] = "nolaunch"],
            evs |-> <<LogEv(r, "info", "command")>>]
      [] OTHER ->
           [rec |-> [rec EXCEPT !.ov = FALSE, !.pc = "fin",
                                !.oc[rec.i + 1] = "raised"],
            evs |-> <<ErrorEv(r, "unexpected")>>]

\* _execute_single up to Popen. how: "ok" Popen returns, "nolaunch" Popen
\* raises (caught inside _execute_single), "raise" an exception outside
\* _execute_single's try block reaches _run_in_thread's except clause.
LaunchStep(rec, r, how) ==
    CASE how = "ok" ->
           [rec |-> [rec EXCEPT !.proc = "running", !.pc = "read",
                                !.launched = @ \cup {rec.i}],
            evs |-> <<LogEv(r, "info", "command")>>]
      [] how = "nolaunch" ->
           [rec |-> [rec EXCEPT !.proc = "None", !.pc = "failed",
                                !.oc[rec.i + 1] = "nolaunch"],
            evs |-> <<LogEv(r, "info", "command"), ErrorEv(r, "notfound")>>]
      [] OTHER ->
           [rec |-> [rec EXCEPT !.ov = FALSE, !.pc = "fin",
                                !.oc[rec.i + 1] = "raised"],
            evs |-> <<ErrorEv(r, "unexpected")>>]

\* One iteration of the readline loop: the per-line interrupt check.
ReadLineStep(rec, r, lvl) ==
    IF rec.interrupted
    THEN [rec |-> [rec EXCEPT !.pc = "failed", !.oc[rec.i + 1] = "intr"],
          evs |-> <<LogEv(r, "warning", "interrupted")>>]
    ELSE [rec |-> rec, evs |-> <<LogEv(r, lvl, "line")>>]

\* A return code that is not looked at: the item counts as done whatever the
\* subprocess returned.
PostStep_IgnoresCode(rec, r) ==
    IF rec.interrupted
    THEN [rec |-> [rec EXCEPT !.proc = "None", !.pc = "failed",
                              !.oc[rec.i + 1] = "intr"],
          evs |-> <<LogEv(r, "warning", "afterinterrupt")>>]
    ELSE [rec |-> [rec EXCEPT !.proc = "None",
                              !.oc[rec.i + 1] = IF rec.proc = "exit0" THEN "ok" ELSE "fail",
                              !.i = @ + 1, !.pc = "top"],
          evs |-> <<LogEv(r, "success", "completed")>>]

\* The return code looked at before the interrupt flag: a subprocess that
\* returned 0 counts as done although interrupt() was called.
PostStep_CodeFirst(rec, r) ==
    IF rec.proc = "exit0"
    THEN [rec |-> [rec EXCEPT !.proc = "None", !.oc[rec.i + 1] = "ok",
                              !.i = @ + 1, !.pc = "top"],
          evs |-> <<LogEv(r, "success", "completed")>>]
    ELSE IF rec.interrupted
    THEN [rec |-> [rec EXCEPT !.proc = "None", !.pc = "failed",
                              !.oc[rec.i + 1] = "intr"],
          evs |-> <<LogEv(r, "warning", "afterinterrupt")>>]
    ELSE [rec |-> [rec EXCEPT !.proc = "None", !.pc = "failed",
                              !.oc[rec.i + 1] = "fail"],
          evs |-> <<ErrorEv(r, "retcode")>>]

\* EOF on stdout, wait(), current_process = None, then the check after
\* wait() and the return code. (interrupt() finds no live process once the
\* subprocess has exited, whether or not current_process is cleared yet.)
PostStep(rec, r) ==
    IF rec.interrupted
    THEN [rec |-> [rec EXCEPT !.proc = "None", !.pc = "failed",
                              !.oc[rec.i + 1] = "intr"],
          evs |-> <<LogEv(r, "warning", "afterinterrupt")>>]
    ELSE IF rec.proc = "exit0"
    THEN [rec |-> [rec EXCEPT !.proc = "None", !.oc[rec.i + 1] = "ok",
                              !.i = @ + 1, !.pc = "top"],
          evs |-> <<LogEv(r, "success", "completed")>>]
    ELSE [rec |-> [rec EXCEPT !.proc = "None", !.pc = "failed",
                              !.oc[rec.i + 1] = "fail"],
          evs |-> <<ErrorEv(r, "retcode")>>]

\* A failed item without the break: the loop goes on to the next item.
FailedStep_NoBreak(rec, r) ==
    [rec |-> [rec EXCEPT !.ov = FALSE, !.i = @ + 1, !.pc = "top"],
     evs |-> IF rec.interrupted
             THEN <<LogEv(r, "warning", "stopping")>>
             ELSE <<ErrorEv(r, "stopping")>>]

\* if not success: overall_success = False; ...; break
FailedStep(rec, r) ==
    [rec |-> [rec EXCEPT !.ov = FALSE, !.pc = "fin"],
     evs |-> IF rec.interrupted
             THEN <<LogEv(r, "warning", "stopping")>>
             ELSE <<ErrorEv(r, "stopping")>>]

\* A finished event put at the end of the try block and not in finally: an
\* exception that reaches the except clause ends the thread without it.
FinStep_OutsideFinally(rec, r) ==
    IF \E k \in DOMAIN rec.oc : rec.oc[k] = "raised"
    THEN [rec |-> [rec EXCEPT !.pc = "tail"], evs |-> <<>>]
    ELSE [rec |-> [rec EXCEPT !.pc = "tail", !.fins = Append(@, rec.ov),
                              !.fint = rec.interrupted],
          evs |-> <<FinishedEv(r, rec.ov)>>]

\* finally: self.log_queue.put(('finished', overall_success))
FinStep(rec, r) ==
    [rec |-> [rec EXCEPT !.pc = "tail", !.fins = Append(@, rec.ov),
                         !.fint = rec.interrupted],
     evs |-> <<FinishedEv(r, rec.ov)>>]

\* finally: self.current_process = None; self._thread = None. Nothing refers
\* to the object of an earlier run any more once its thread has ended.
TailStep(rec, r) ==
    [rec |-> IF r < nruns THEN [NewRunner EXCEPT !.pc = "dead"]
             ELSE [rec EXCEPT !.proc = "None", !.pc = "dead"],
     evs |-> <<>>]

\* The thread of runner r takes the step s: its events go on the queue.
ThreadDo(r, s, u) ==
    /\ runners' = [runners EXCEPT ![r] =
                     [s.rec EXCEPT !.post = @ \/ (s.evs # <<>> /\ runners[r].fins # <<>>)]]
    /\ log_queue' = log_queue \o s.evs
    /\ used' = u
    /\ Step
    /\ UNCHANGED <<arch, call, emitted, nruns, main, appVars>>

T_Top(r) ==
    /\ runners[r].pc = "top"
    /\ LET s == TopStep(runners[r], r)
       IN IF s.rec.pc = "exists"
          THEN /\ used.items < MaxItems
               /\ ThreadDo(r, s, [used EXCEPT !.items = @ + 1])
          ELSE ThreadDo(r, s, used)

T_Exists(r) ==
    /\ runners[r].pc = "exists"
    /\ \E ex \in BOOLEAN :
          /\ ~ex => used.faults < MaxFaults
          /\ ThreadDo(r, ExistsStep(runners[r], r, ex),
                      IF ex THEN used ELSE [used EXCEPT !.faults = @ + 1])

T_Launch(r) ==
    /\ runners[r].pc = "launch"
    /\ \E how \in {"ok", "nolaunch", "raise"} :
          /\ how # "ok" => used.faults < MaxFaults
          /\ ThreadDo(r, LaunchStep(runners[r], r, how),
                      IF how = "ok" THEN used ELSE [used EXCEPT !.faults = @ + 1])

T_ReadLine(r) ==
    /\ runners[r].pc = "read"
    /\ used.lines < MaxLines
    /\ \E lvl \in {"info", "progress"} :
          ThreadDo(r, ReadLineStep(runners[r], r, lvl),
                   [used EXCEPT !.lines = @ + 1])

T_Post(r) ==
    /\ runners[r].pc = "read"
    /\ runners[r].proc \in {"exit0", "exit1"}
    /\ ThreadDo(r, PostStep(runners[r], r), used)

T_Failed(r) ==
    /\ runners[r].pc = "failed"
    /\ ThreadDo(r, FailedStep(runners[r], r), used)

T_Fin(r) ==
    /\ runners[r].pc = "fin"
    /\ ThreadDo(r, FinStep(runners[r], r), used)

T_Tail(r) ==
    /\ runners[r].pc = "tail"
    /\ ThreadDo(r, TailStep(runners[r], r), used)

\* The subprocess of runner r exits by itself (either code), or exits after
\* the SIGTERM interrupt() sent it.
ProcExit(r) ==
    /\ runners[r].proc \in {"running", "term"}
    /\ \E code \in {"exit0", "exit1"} :
          /\ runners[r].proc = "term" => code = "exit1"
          /\ runners[r].proc = "running" /\ code = "exit1" => used.faults < MaxFaults
          /\ runners' = [runners EXCEPT ![r].proc = code]
          /\ used' = IF runners[r].proc = "running" /\ code = "exit1"
                     THEN [used EXCEPT !.faults = @ + 1] ELSE used
    /\ Step
    /\ UNCHANGED <<arch, call, emitted, nruns, log_queue, main, appVars>>

\* The steps the thread of runner r takes by itself: all but the reading of
\* a line, which needs the subprocess to print one.
ThreadSteps(r) ==
    \/ T_Top(r)
    \/ T_Exists(r)
    \/ T_Launch(r)
    \/ T_Post(r)
    \/ T_Failed(r)
    \/ T_Fin(r)
    \/ T_Tail(r)

\* The thread and subprocess of runner r when the subprocess prints nothing.
QuietThread(r) ==
    \/ ThreadSteps(r)
    \/ ProcExit(r)

Thread(r) ==
    \/ QuietThread(r)
    \/ T_ReadLine(r)

\* RsyncRunner.interrupt: the warning, the flag and the test of
\* current_process; with a live subprocess terminate() and its info event
\* (wait() follows), else the "no active process" info event.
InterruptStep(rec, r) ==
    IF rec.proc \in {"running", "term"}
    THEN [rec |-> [rec EXCEPT !.interrupted = TRUE, !.proc = "term",
                              !.calls = @ + 1],
          evs |-> <<LogEv(r, "warning", "signal"), LogEv(r, "info", "sigterm")>>,
          next |-> "intr_wait"]
    ELSE [rec |-> [rec EXCEPT !.interrupted = TRUE, !.calls = @ + 1],
          evs |-> <<LogEv(r, "warning", "signal"), LogEv(r, "info", "noactive")>>,
          next |-> "intr_done"]

\* RsyncRunner.interrupt, the rest: wait(timeout=2) returns, times out (kill),
\* or finds current_process cleared by the thread (caught, error event).
InterruptRest(rec, r) ==
    IF rec.proc = "None"
    THEN [rec |-> rec, evs |-> <<ErrorEv(r, "interrupting")>>]
    ELSE IF rec.proc = "term"
    THEN [rec |-> [rec EXCEPT !.proc = "exit1"],
          evs |-> <<LogEv(r, "warning", "sigkill")>>]
    ELSE [rec |-> rec, evs |-> <<>>]

Idle == main.pc = "idle"
MainIdle == [pc |-> "idle", r |-> 0]

\* ------------------------------------------------------------ initial state
\* AppState.__init__: the default options.
DefaultOptions ==
    [archive |-> TRUE, compress |-> TRUE, progress |-> TRUE,
     human_readable |-> TRUE, delete |-> FALSE, verbose |-> FALSE,
     dry_run |-> FALSE, preserve_permissions |-> TRUE]

NoResume == [last_completed_index |-> -1, was_interrupted |-> FALSE]

\* NoneUsed: nothing of the budgets is used up at the start.
NoneUsed ==
    [items |-> 0, faults |-> 0, lines |-> 0, edits |-> 0, runs |-> 0,
     overlap |-> 0]

\* No method has been called directly.
NoCall == [op |-> "none", arg |-> 0, res |-> 0]

InitFor(a, avail, u) ==
    /\ arch = a
    /\ runners = [r \in RunnerIds |-> NewRunner]
    /\ nruns = 0
    /\ log_queue = <<>>
    /\ main = MainIdle
    /\ runner = 0
    /\ log_timer = FALSE
    /\ status = "IDLE"
    /\ rsync_available = avail
    /\ sources = <<>>
    /\ destination = 0
    /\ options = DefaultOptions
    /\ resume_state = NoResume
    /\ last_error = "None"
    /\ progress = [current_item_index |-> -1, total_items |-> 0]
    /\ used = u
    /\ overlap = 0
    /\ call = NoCall
    /\ emitted = [r \in RunnerIds |-> <<>>]

\* ------------------------------------------ the controlling thread, shared
\* run_all after thread.start(): the "started" info event; then the caller's
\* log_timer.start() (start_rsync, start_or_resume_rsync).
M_Started ==
    /\ Step
    /\ main.pc = "started"
    /\ log_queue' = Append(log_queue, LogEv(main.r, "info", "started"))
    /\ log_timer' = (arch # "runner")
    /\ main' = MainIdle
    /\ UNCHANGED <<arch, call, emitted, runners, nruns, runner, status, rsync_available,
                   sources, destination, options, resume_state, last_error,
                   progress, used>>

\* A set_status that clears last_error on every change of status.
set_status_error_EveryChange(old, new, err) ==
    IF old # new THEN "None" ELSE err

\* set_status as called by the handlers: last_error is cleared when the
\* status changes to one that is not error-like.
set_status_error(old, new, err) ==
    IF old # new /\ new \notin {"FINISHED_ERROR", "RSYNC_NOT_FOUND"}
    THEN "None" ELSE err

\* interrupt() returns to its caller: _handle_interrupt_clicked then moves
\* RUNNING to INTERRUPTING.
M_InterruptRest ==
    /\ Step
    /\ main.pc \in {"intr_wait", "intr_done"}
    /\ LET s == IF main.pc = "intr_wait"
                THEN InterruptRest(runners[main.r], main.r)
                ELSE [rec |-> runners[main.r], evs |-> <<>>]
           st == IF arch = "app" /\ status = "RUNNING" THEN "INTERRUPTING" ELSE status
       IN /\ runners' = [runners EXCEPT ![main.r] = s.rec]
          /\ log_queue' = log_queue \o s.evs
          /\ status' = st
          /\ last_error' = set_status_error(status, st, last_error)
    /\ main' = MainIdle
    /\ UNCHANGED <<arch, call, emitted, nruns, runner, log_timer, rsync_available, sources,
                   destination, options, resume_state, progress, used>>

\* runner.interrupt() entered for runner r from handler op.
EnterInterrupt(r) ==
    LET s == InterruptStep(runners[r], r)
    IN /\ runners[r].calls < MaxCalls
       /\ runners' = [runners EXCEPT ![r] = s.rec]
       /\ log_queue' = log_queue \o s.evs
       /\ main' = [pc |-> s.next, r |-> r]

\* --------------------------------------------------------------- SpecRunner
\* run_all() on a runner object: rejected with a warning while its thread is
\* alive; on the new object the thread is started (the manager makes a new
\* RsyncRunner for every run, so a dead runner is not started again).
R_RunAll ==
    /\ Step
    /\ Idle
    /\ \E total \in 0..MaxPaths : \E start \in 0..total :
        IF is_running(runners[1])
        THEN /\ runners[1].calls < MaxCalls
             /\ runners' = [runners EXCEPT ![1].calls = @ + 1]
             /\ log_queue' = Append(log_queue, LogEv(1, "warning", "already"))
             /\ UNCHANGED <<nruns, main>>
        ELSE /\ runners[1].pc = "idle"
             /\ runners' = [runners EXCEPT ![1] = StartThread(@, start, total)]
             /\ nruns' = nruns + 1
             /\ main' = [pc |-> "started", r |-> 1]
             /\ UNCHANGED log_queue
    /\ UNCHANGED <<arch, call, emitted, appVars, used>>

R_Interrupt ==
    /\ Step
    /\ Idle
    /\ EnterInterrupt(1)
    /\ UNCHANGED <<arch, call, emitted, nruns, appVars, used>>

InitRunner == InitFor("runner", FALSE, NoneUsed)

NextRunner ==
    \/ R_RunAll
    \/ R_Interrupt
    \/ M_Started
    \/ M_InterruptRest
    \/ Thread(1)

SpecRunner == InitRunner /\ [][NextRunner]_vars

\* The runner with a scheduler that lets the thread and the caller of
\* interrupt() go on; the subprocess need not print or exit by itself.
SpecRunnerFair ==
    /\ SpecRunner
    /\ WF_vars(ThreadSteps(1))
    /\ WF_vars(M_Started)
    /\ WF_vars(M_InterruptRest)

\* ------------------------------------------------- claims about RsyncRunner
Done(rec, j) == j + 1 \in DOMAIN rec.oc /\ rec.oc[j + 1] \in {"skipped", "ok"}

\* C2: a thread that run_all started puts exactly one finished event, however
\* the batch ends, and no event after it: never two, none before the loop has
\* ended, one once the finally block has run.
C2_OneFinished ==
    \A r \in RunnerIds :
        LET rec == runners[r]
        IN /\ Len(rec.fins) <= 1
           /\ ~rec.post
           /\ rec.pc \in {"tail", "dead"} => Len(rec.fins) = 1
           /\ rec.pc \notin {"idle", "tail", "dead"} => rec.fins = <<>>

\* The batch ended by an unexpected exception and the thread has ended.
C2_Witness ==
    /\ runners[1].pc = "dead"
    /\ runners[1].fins = <<FALSE>>
    /\ \E k \in DOMAIN runners[1].oc : runners[1].oc[k] = "raised"

\* C3: the finished event carries true only if every item from start_index
\* to the end was skipped as missing or ran its subprocess to exit code 0.
C3_TrueOnlyIfAllDone ==
    \A r \in RunnerIds :
        LET rec == runners[r]
        IN rec.fins # <<>> /\ rec.fins[1] =>
              \A j \in rec.start..(rec.total - 1) : Done(rec, j)

\* A run from index 1 of 3 items ends with finished(true): one item ran to
\* exit 0, one was skipped.
C3_Witness ==
    /\ runners[1].fins = <<TRUE>>
    /\ runners[1].start = 1
    /\ runners[1].oc = <<"none", "ok", "skipped">>

\* C4: when the interruption flag is set before the thread puts its finished
\* event, that event carries false.
C4_InterruptedIsFalse ==
    \A r \in RunnerIds :
        runners[r].fins # <<>> /\ runners[r].fint => ~runners[r].fins[1]

\* C5: when the subprocess of item i exits nonzero without interruption, no
\* later item gets a progress event or a subprocess, and the finished event
\* carries false.
C5_FirstFailureStops ==
    \A r \in RunnerIds :
        LET rec == runners[r]
        IN \A i \in 0..(rec.total - 1) :
              rec.oc[i + 1] = "fail" =>
                 /\ \A k \in DOMAIN rec.prog : rec.prog[k] <= i
                 /\ \A j \in rec.launched : j <= i
                 /\ rec.fins # <<>> => rec.fins = <<FALSE>>

\* Item 1 of 3 exited nonzero and the thread has ended.
C5_Witness ==
    /\ runners[1].pc = "dead"
    /\ runners[1].oc = <<"ok", "fail", "none">>
    /\ runners[1].fins = <<FALSE>>

\* C6: a missing source is skipped without a subprocess and without failing
\* the batch: after it the loop goes on (only an interruption keeps the next
\* item from being attempted), and a run in which every item was skipped or
\* exited 0 ends with finished(true).
C6_MissingSourceSkip ==
    \A r \in RunnerIds :
        LET rec == runners[r]
        IN \A i \in 0..(rec.total - 1) :
              rec.oc[i + 1] = "skipped" =>
                 /\ i \notin rec.launched
                 /\ (rec.fins # <<>> /\ i + 1 < rec.total /\ rec.oc[i + 2] = "none")
                        => rec.interrupted
                 /\ (rec.fins # <<>> /\ \A j \in rec.start..(rec.total - 1) : Done(rec, j))
                        => rec.fins = <<TRUE>>

\* Item 1 of 3 is missing, items 0 and 2 exit 0: finished(true).
C6_Witness ==
    /\ runners[1].fins = <<TRUE>>
    /\ runners[1].oc = <<"ok", "skipped", "ok">>

\* C15: once interrupt() has been called on a runner whose thread is alive,
\* the thread ends, even with a subprocess that does not exit by itself.
C15_InterruptEndsThread ==
    (is_running(runners[1]) /\ runners[1].interrupted)
        ~> ~is_running(runners[1])

\* ------------------------------------------------------------------ AppState
\* The paths in descending order: sorted(..., reverse=True).
RECURSIVE SortedList_Descending(_)
SortedList_Descending(S) ==
    IF S = {} THEN <<>>
    ELSE LET m == CHOOSE x \in S : \A y \in S : x >= y
         IN <<m>> \o SortedList_Descending(S \ {m})

\* sorted(list(set(paths)))
RECURSIVE SortedList(_)
SortedList(S) ==
    IF S = {} THEN <<>>
    ELSE LET m == CHOOSE x \in S : \A y \in S : x <= y
         IN <<m>> \o SortedList(S \ {m})

Range(q) == {q[k] : k \in 1..Len(q)}

\* A can_resume that does not look at was_interrupted.
can_resume_AnyFailure(rs, srcs) ==
    /\ 0 <= rs.last_completed_index
    /\ rs.last_completed_index < Len(srcs) - 1

\* AppState.can_resume
can_resume(rs, srcs) ==
    /\ rs.was_interrupted
    /\ 0 <= rs.last_completed_index
    /\ rs.last_completed_index < Len(srcs) - 1

\* AppState.get_resume_start_index
get_resume_start_index(rs, srcs) ==
    IF can_resume(rs, srcs) THEN rs.last_completed_index + 1 ELSE 0

\* A can_run_or_resume that does not look at the status.
can_run_or_resume_AnyStatus(avail, srcs, dest, st) ==
    /\ avail
    /\ srcs # <<>>
    /\ dest # 0

\* AppState.can_run_or_resume
can_run_or_resume(avail, srcs, dest, st) ==
    /\ avail
    /\ srcs # <<>>
    /\ dest # 0
    /\ st \in {"READY", "FINISHED_SUCCESS", "FINISHED_ERROR", "INTERRUPTED"}

\* An update_completion_index that stores whatever index it is given.
update_completion_index_Overwrite(rs, index) ==
    [rs EXCEPT !.last_completed_index = index]

\* AppState.update_completion_index
update_completion_index(rs, index) ==
    IF index > rs.last_completed_index
    THEN [rs EXCEPT !.last_completed_index = index]
    ELSE rs

\* AppState.mark_interrupted; neither the coordinator nor the manager calls it.
mark_interrupted(rs) == [rs EXCEPT !.was_interrupted = TRUE]

\* ------------------------------------------------------------ AppCoordinator
\* The state the poller's handlers read and write while one drain runs.
AppRec ==
    [status |-> status, last_error |-> last_error, resume_state |-> resume_state,
     progress |-> progress, runner |-> runner, log_timer |-> log_timer,
     q |-> log_queue, emitted |-> emitted]

\* AppCoordinator._handle_log: an error-level message becomes last_error.
handle_log(a, level) ==
    IF level = "error" THEN [a EXCEPT !.last_error = "msg"] ELSE a

\* AppState.set_status
set_status(a, new) ==
    [a EXCEPT !.status = new,
              !.last_error = set_status_error(a.status, new, a.last_error)]

\* A success branch that sets the status and leaves the resume state alone.
handle_rsync_finished_KeepsResume(a, success) ==
    IF success THEN set_status(a, "FINISHED_SUCCESS") ELSE a

\* AppCoordinator._handle_rsync_finished. The failure branch reads
\* self.app_state.was_interrupted, an attribute AppState does not have: the
\* slot raises AttributeError there, PySide6 reports it and the emit returns,
\* so nothing after the read is executed.
handle_rsync_finished(a, success) ==
    IF success
    THEN [set_status(a, "FINISHED_SUCCESS") EXCEPT !.resume_state = NoResume]
    ELSE a

\* RsyncProcessManager.process_log_queue, the 'finished' branch.
ProcessFinished(a, ev) ==
    LET was_interrupted_on_finish ==
            a.runner # 0 /\ runners[a.runner].interrupted
        a1 == [a EXCEPT !.runner = 0]
        a2 == handle_log(a1, IF was_interrupted_on_finish THEN "warning"
                             ELSE IF ev.ok THEN "success" ELSE "error")
        success == ev.ok /\ ~was_interrupted_on_finish
        a3 == handle_rsync_finished(a2, success)
    IN [a3 EXCEPT !.log_timer = FALSE,
                  !.emitted[ev.r] = Append(@, success)]

\* RsyncProcessManager.process_log_queue, the other branches.
ProcessEvent(a, ev) ==
    CASE ev.t = "log" ->
           IF ev.lvl # "progress" THEN handle_log(a, ev.lvl) ELSE a
      [] ev.t = "progress" ->
           [a EXCEPT !.resume_state = update_completion_index(@, ev.i),
                     !.progress = [current_item_index |-> ev.i,
                                   total_items |-> ev.n]]
      [] OTHER -> handle_log(a, "error")

\* A drain that goes on with the queue after a finished event.
RECURSIVE DrainLoop_Continues(_)
DrainLoop_Continues(a) ==
    IF a.q = <<>>
    THEN [a EXCEPT !.log_timer = IF a.runner = 0 THEN FALSE ELSE @]
    ELSE LET ev == Head(a.q)
             b == [a EXCEPT !.q = Tail(@)]
         IN IF ev.t = "finished" THEN DrainLoop_Continues(ProcessFinished(b, ev))
            ELSE DrainLoop_Continues(ProcessEvent(b, ev))

\* while not self.log_queue.empty(): ... return at 'finished'
RECURSIVE DrainLoop(_)
DrainLoop(a) ==
    IF a.q = <<>>
    THEN [a EXCEPT !.log_timer = IF a.runner = 0 THEN FALSE ELSE @]
    ELSE LET ev == Head(a.q)
             b == [a EXCEPT !.q = Tail(@)]
         IN IF ev.t = "finished" THEN ProcessFinished(b, ev)
            ELSE DrainLoop(ProcessEvent(b, ev))

\* RsyncProcessManager.process_log_queue
process_log_queue(a) ==
    IF a.runner = 0 /\ a.q = <<>>
    THEN [a EXCEPT !.log_timer = FALSE]
    ELSE DrainLoop(a)

\* The QTimer fires.
Poll ==
    /\ Step
    /\ Idle
    /\ log_timer
    /\ LET a == process_log_queue(AppRec)
       IN /\ status' = a.status
          /\ last_error' = a.last_error
          /\ resume_state' = a.resume_state
          /\ progress' = a.progress
          /\ runner' = a.runner
          /\ log_timer' = a.log_timer
          /\ log_queue' = a.q
          /\ emitted' = a.emitted
    /\ UNCHANGED <<arch, call, runners, nruns, main, rsync_available, sources,
                   destination, options, used>>

\* AppCoordinator._handle_run_resume_clicked with RsyncProcessManager.start_rsync
\* and run_all up to thread.start(); avail is the result of the probe.
RunResumeClicked ==
    /\ Step
    /\ Idle
    /\ \E avail \in BOOLEAN :
        /\ avail \/ \A r \in RunnerIds : ~is_running(runners[r])
        /\ rsync_available' = avail
        /\ IF ~avail
           THEN /\ status' = "RSYNC_NOT_FOUND"
                /\ last_error' = "msg"
                /\ UNCHANGED <<runners, nruns, main, runner, resume_state>>
           ELSE IF ~can_run_or_resume(avail, sources, destination, status)
           THEN /\ LET a == handle_log(AppRec, "error")
                       b == IF status \notin {"READY", "INTERRUPTED", "FINISHED_ERROR"}
                            THEN set_status(a, "READY") ELSE a
                   IN status' = b.status /\ last_error' = b.last_error
                /\ UNCHANGED <<runners, nruns, main, runner, resume_state>>
           ELSE LET is_resuming == can_resume(resume_state, sources)
                    start_index == get_resume_start_index(resume_state, sources)
                    r == nruns + 1
                IN /\ nruns + used.runs < MaxRuns
                   /\ status' = "RUNNING"
                   /\ last_error' = set_status_error(status, "RUNNING", last_error)
                   /\ resume_state' = IF is_resuming THEN resume_state ELSE NoResume
                   /\ runner' = r
                   /\ runners' = [Reclaim(runners) EXCEPT ![r] =
                                    StartThread(NewRunner, start_index, Len(sources))]
                   /\ nruns' = r
                   /\ main' = [pc |-> "started", r |-> r]
    /\ UNCHANGED <<arch, call, emitted, log_queue, log_timer, sources, destination, options,
                   progress, used>>

\* The manager, its runner objects and the AppState it was given.
MgrRec ==
    [runners |-> runners, main |-> main, q |-> log_queue, runner |-> runner,
     log_timer |-> log_timer, status |-> status, last_error |-> last_error,
     resume_state |-> resume_state, progress |-> progress, sources |-> sources,
     destination |-> destination, options |-> options,
     rsync_available |-> rsync_available]

\* A request_interrupt that calls interrupt() on the runner it holds without
\* asking whether its thread is alive.
request_interrupt_NoGuard(m) ==
    IF m.runner # 0
    THEN LET s == InterruptStep(m.runners[m.runner], m.runner)
         IN [m EXCEPT !.runners[m.runner] = s.rec, !.q = @ \o s.evs,
                      !.main = [pc |-> s.next, r |-> m.runner]]
    ELSE handle_log(m, "warning")

\* RsyncProcessManager.request_interrupt: interrupt() on the running runner
\* (up to its wait), else a warning log.
request_interrupt(m) ==
    IF m.runner # 0 /\ is_running(m.runners[m.runner])
    THEN LET s == InterruptStep(m.runners[m.runner], m.runner)
         IN [m EXCEPT !.runners[m.runner] = s.rec, !.q = @ \o s.evs,
                      !.main = [pc |-> s.next, r |-> m.runner]]
    ELSE handle_log(m, "warning")

\* AppCoordinator._handle_interrupt_clicked: request_interrupt, then RUNNING
\* becomes INTERRUPTING (in M_InterruptRest when interrupt() has to wait).
InterruptClicked ==
    /\ Step
    /\ Idle
    /\ runner # 0 /\ is_running(runners[runner]) => runners[runner].calls < MaxCalls
    /\ LET m == request_interrupt(MgrRec)
           st == IF m.main.pc = "idle" /\ m.status = "RUNNING"
                 THEN "INTERRUPTING" ELSE m.status
       IN /\ runners' = m.runners
          /\ log_queue' = m.q
          /\ main' = m.main
          /\ status' = st
          /\ last_error' = set_status_error(m.status, st, m.last_error)
    /\ UNCHANGED <<arch, call, emitted, nruns, runner, log_timer, rsync_available, sources,
                   destination, options, resume_state, progress, used>>

\* AppState.set_sources, set_destination, set_options: a changed value
\* resets the resume state.
SetInput(srcs, dest, opts) ==
    /\ Step
    /\ used.edits < MaxEdits
    /\ used' = [used EXCEPT !.edits = @ + 1]
    /\ sources' = srcs
    /\ destination' = dest
    /\ options' = opts
    /\ resume_state' = IF <<srcs, dest, opts>> # <<sources, destination, options>>
                       THEN NoResume ELSE resume_state
    /\ UNCHANGED <<arch, call, emitted, runners, nruns, log_queue, main, runner, log_timer,
                   status, rsync_available, last_error, progress>>

\* AppCoordinator._handle_sources_dropped
SourcesDropped ==
    /\ Idle
    /\ \E k \in PathIds :
        LET dropped == 1..k
            new_paths == dropped \ Range(sources)
        IN /\ new_paths # {}
           /\ SetInput(SortedList(Range(sources) \cup new_paths), destination, options)

\* AppCoordinator._handle_remove_sources_clicked
RemoveSources ==
    /\ Idle
    /\ \E k \in PathIds :
        LET updated == SelectSeq(sources, LAMBDA x : x < k)
        IN /\ Len(updated) # Len(sources)
           /\ SetInput(SortedList(Range(updated)), destination, options)

\* AppCoordinator._handle_destination_dropped
DestinationDropped ==
    /\ Idle
    /\ \E d \in {1, 2} :
        /\ d # destination
        /\ destination = 0 => d = 1
        /\ SetInput(sources, d, options)

\* AppCoordinator._handle_options_changed: one checkbox toggled.
OptionsChanged ==
    /\ Idle
    /\ SetInput(sources, destination, [options EXCEPT !.dry_run = ~@])

Init == InitFor("app", FALSE, NoneUsed)

Next ==
    \/ RunResumeClicked
    \/ InterruptClicked
    \/ Poll
    \/ SourcesDropped
    \/ RemoveSources
    \/ DestinationDropped
    \/ OptionsChanged
    \/ M_Started
    \/ M_InterruptRest
    \/ \E r \in RunnerIds : QuietThread(r)

Spec == Init /\ [][Next]_vars

\* The application with one run only, without faults, and with one more input
\* change than in Spec, so that inputs can change while the run is active.
InitOneRun ==
    InitFor("app", FALSE, [NoneUsed EXCEPT !.runs = MaxRuns - 1,
                                        !.faults = MaxFaults, !.edits = -1])

SpecOneRun == InitOneRun /\ [][Next]_vars

\* The same with a poller that keeps firing, a scheduler that lets the
\* threads go on and subprocesses that terminate.
SpecOneRunFair ==
    /\ SpecOneRun
    /\ WF_vars(Poll)
    /\ WF_vars(M_Started)
    /\ WF_vars(M_InterruptRest)
    /\ \A r \in RunnerIds : WF_vars(ThreadSteps(r)) /\ WF_vars(ProcExit(r))

\* ------------------------------------------------ claims about the application
\* The threads that are alive.
Alive == {x \in RunnerIds : is_running(runners[x])}

\* C1: at most one runner thread is alive at any time.
C1_SingleRunner == Cardinality(Alive) <= 1

\* The only run so far, over 3 sources from index 0, is over and its finished
\* event has been handled; oc is what happened to the three items.
RunHandled(oc) ==
    /\ nruns = 1
    /\ Len(sources) = 3
    /\ runner = 0
    /\ ~Pending(1)
    /\ runners[1].start = 0
    /\ runners[1].oc = oc

\* The run was interrupted after item 1 completed and before item 2 started.
C7_Scenario == RunHandled(<<"ok", "ok", "none">>) /\ runners[1].interrupted

\* C7: given 3 sources and a run interrupted after item 1 completed, once the
\* finished event is handled get_resume_start_index() is 2, and the next run
\* starts at index 2.
C7_ResumeAtTwo ==
    /\ [](C7_Scenario => get_resume_start_index(resume_state, sources) = 2)
    /\ [][C7_Scenario /\ nruns' = 2 => runners'[2].start = 2]_vars

\* Item 0 exited 0, item 1 exited nonzero, no interruption.
C9_Scenario == RunHandled(<<"ok", "fail", "none">>) /\ ~runners[1].interrupted

FirstFinished(q) ==
    LET ks == {k \in DOMAIN q : q[k].t = "finished"}
    IN IF ks = {} THEN "none"
       ELSE IF q[CHOOSE k \in ks : \A j \in ks : k <= j].ok THEN "true" ELSE "false"

\* C10: when the poller handles a finished event with success = false for a
\* run whose interruption flag is set, status becomes INTERRUPTED and the
\* resume state is not reset.
C10_BecomesInterrupted ==
    [][(/\ runner # 0
        /\ runner' = 0
        /\ runners[runner].interrupted
        /\ FirstFinished(log_queue) = "false")
       => /\ status' = "INTERRUPTED"
          /\ resume_state'.last_completed_index >= resume_state.last_completed_index
          /\ resume_state.was_interrupted => resume_state'.was_interrupted]_vars

\* This step is a poll cycle that handles a finished event.
HandlesFinished ==
    /\ Len(log_queue') < Len(log_queue)
    /\ FirstFinished(log_queue) # "none"

\* The value rsync_finished is emitted with when the first finished event on
\* the queue is handled: success AND NOT was_interrupted_on_finish.
Notified ==
    /\ FirstFinished(log_queue) = "true"
    /\ ~(runner # 0 /\ runners[runner].interrupted)

\* The run is over: its thread has ended and its finished event is handled.
RunOver ==
    /\ nruns >= 1
    /\ runner = 0
    /\ \A x \in RunnerIds : ~Pending(x)
    /\ Idle

\* C14: with subprocesses that terminate and a poller that keeps firing,
\* status does not stay RUNNING or INTERRUPTING for ever once the run is
\* over: it reaches FINISHED_SUCCESS, FINISHED_ERROR or INTERRUPTED.
C14_ReachesTerminal ==
    (RunOver /\ status \in {"RUNNING", "INTERRUPTING"})
        ~> (status \in {"FINISHED_SUCCESS", "FINISHED_ERROR", "INTERRUPTED"})

C11_InterruptKeepsResume ==
    (/\ nruns = 1
     /\ runner = 0
     /\ ~Pending(1)
     /\ runners[1].interrupted
     /\ runners[1].fins = <<FALSE>>
     /\ Len(sources) >= 2
     /\ 0 <= resume_state.last_completed_index
     /\ resume_state.last_completed_index < Len(sources) - 1)
    => /\ resume_state.was_interrupted
       /\ can_resume(resume_state, sources)

C13_BecomesFinishedError ==
    [][(/\ HandlesFinished
        /\ FirstFinished(log_queue) = "false"
        /\ runner # 0
        /\ ~runners[runner].interrupted)
       => /\ status' = "FINISHED_ERROR"
          /\ resume_state'.last_completed_index >= resume_state.last_completed_index
          /\ resume_state'.was_interrupted = resume_state.was_interrupted
          /\ last_error' # "None"]_vars

\* C20: between the start of a run and the handling of its finished event
\* (the manager holds the runner all that time) last_completed_index never
\* decreases, whatever the user does meanwhile.
C20_NeverDecreases ==
    [][runner # 0 /\ runner' = runner
       => resume_state'.last_completed_index >= resume_state.last_completed_index]_vars

\* --------------------------------------------- RsyncController, StateManager
\* StateManager.reset_for_new_run
L_reset_for_new_run == [last_completed_index |-> -1, was_interrupted |-> FALSE]

\* StateManager.mark_interrupted
L_mark_interrupted(rs) == [rs EXCEPT !.was_interrupted = TRUE]

\* StateManager.update_completion_index
L_update_completion_index(rs, index) ==
    IF index > rs.last_completed_index
    THEN [rs EXCEPT !.last_completed_index = index]
    ELSE rs

\* A can_resume that does not look at was_interrupted.
L_can_resume_IgnoresFlag(rs, total_items) ==
    /\ 0 <= rs.last_completed_index
    /\ rs.last_completed_index < total_items - 1

\* StateManager.can_resume
L_can_resume(rs, total_items) ==
    /\ rs.was_interrupted
    /\ 0 <= rs.last_completed_index
    /\ rs.last_completed_index < total_items - 1

\* StateManager.get_resume_start_index
L_get_resume_start_index(rs) ==
    IF rs.was_interrupted /\ rs.last_completed_index >= -1
    THEN rs.last_completed_index + 1
    ELSE 0

\* RsyncController._can_run_or_resume
L_can_run_or_resume ==
    /\ rsync_available
    /\ destination # 0
    /\ sources # <<>> \/ L_can_resume(resume_state, Len(sources))

\* RsyncController.start_or_resume_rsync with run_all up to thread.start().
L_StartOrResume ==
    /\ Step
    /\ Idle
    /\ IF ~L_can_run_or_resume
       THEN UNCHANGED <<runners, nruns, main, runner, resume_state>>
       ELSE LET total == Len(sources)
                is_resuming == L_can_resume(resume_state, total)
                start_index == L_get_resume_start_index(resume_state)
                r == nruns + 1
            IN /\ nruns + used.runs < MaxRuns
               /\ resume_state' = [(IF is_resuming THEN resume_state
                                       ELSE L_reset_for_new_run)
                                      EXCEPT !.was_interrupted = FALSE]
               /\ runner' = r
               /\ runners' = [Reclaim(runners) EXCEPT ![r] =
                                StartThread(NewRunner, start_index, total)]
               /\ nruns' = r
               /\ main' = [pc |-> "started", r |-> r]
    /\ UNCHANGED <<arch, call, emitted, log_queue, log_timer, status, rsync_available, sources,
                   destination, options, last_error, progress, used>>

\* RsyncController.request_interrupt
L_RequestInterrupt ==
    /\ Step
    /\ Idle
    /\ IF runner # 0 /\ is_running(runners[runner])
       THEN EnterInterrupt(runner)
       ELSE UNCHANGED <<runners, log_queue, main>>
    /\ UNCHANGED <<arch, call, emitted, nruns, appVars, used>>

\* The state process_log_queue reads and writes while one drain runs.
L_Rec == [resume_state |-> resume_state, runner |-> runner,
          log_timer |-> log_timer, q |-> log_queue]

\* RsyncController.process_log_queue, the 'finished' branch.
L_ProcessFinished(a, ev) ==
    LET was_interrupted_on_finish ==
            a.runner # 0 /\ runners[a.runner].interrupted
        rs1 == IF ~ev.ok /\ was_interrupted_on_finish
               THEN L_mark_interrupted(a.resume_state) ELSE a.resume_state
        rs2 == IF rs1.was_interrupted THEN rs1
               ELSE IF ev.ok THEN L_reset_for_new_run ELSE rs1
    IN [a EXCEPT !.resume_state = rs2, !.runner = 0, !.log_timer = FALSE]

\* RsyncController.process_log_queue, the other branches: only a progress
\* event changes the controller's state.
L_ProcessEvent(a, ev) ==
    IF ev.t = "progress"
    THEN [a EXCEPT !.resume_state = L_update_completion_index(@, ev.i)]
    ELSE a

\* while not self.log_queue.empty(): ... return at 'finished'
RECURSIVE L_DrainLoop(_)
L_DrainLoop(a) ==
    IF a.q = <<>>
    THEN [a EXCEPT !.log_timer = IF a.runner = 0 THEN FALSE ELSE @]
    ELSE LET ev == Head(a.q)
             b == [a EXCEPT !.q = Tail(@)]
         IN IF ev.t = "finished" THEN L_ProcessFinished(b, ev)
            ELSE L_DrainLoop(L_ProcessEvent(b, ev))

\* RsyncController.process_log_queue
L_process_log_queue(a) ==
    IF a.runner = 0 /\ a.q = <<>>
    THEN [a EXCEPT !.log_timer = FALSE]
    ELSE L_DrainLoop(a)

\* The QTimer of the controller fires.
L_Poll ==
    /\ Step
    /\ Idle
    /\ log_timer
    /\ LET a == L_process_log_queue(L_Rec)
       IN /\ resume_state' = a.resume_state
          /\ runner' = a.runner
          /\ log_timer' = a.log_timer
          /\ log_queue' = a.q
    /\ UNCHANGED <<arch, call, emitted, runners, nruns, main, status, rsync_available, sources,
                   destination, options, last_error, progress, used>>

\* One call of an input handler of the controller.
L_Edit(srcs, dest, rs) ==
    /\ Step
    /\ Idle
    /\ used.edits < MaxEdits
    /\ used' = [used EXCEPT !.edits = @ + 1]
    /\ sources' = srcs
    /\ destination' = dest
    /\ resume_state' = rs
    /\ UNCHANGED <<arch, call, emitted, runners, nruns, log_queue, main, runner, log_timer,
                   status, rsync_available, options, last_error, progress>>

\* SourceListWidget.dropEvent, RsyncController.handle_sources_dropped: the
\* widget has added the new paths before the handler runs, so the handler
\* finds every path in the list already and resets nothing.
L_SourcesDropped ==
    \E k \in PathIds :
        LET new_paths == (1..k) \ Range(sources)
        IN /\ new_paths # {}
           /\ L_Edit(sources \o SortedList(new_paths), destination, resume_state)

\* GuiManager._emit_remove_sources, RsyncController.handle_remove_sources
L_RemoveSources ==
    \E k \in PathIds :
        LET updated == SelectSeq(sources, LAMBDA x : x < k)
        IN /\ Len(updated) # Len(sources)
           /\ L_Edit(updated, destination,
                     IF resume_state.was_interrupted THEN L_reset_for_new_run
                     ELSE resume_state)

\* DropLineEdit.dropEvent, RsyncController.handle_destination_dropped
L_DestinationDropped ==
    \E d \in {1, 2} :
        /\ d # destination
        /\ destination = 0 => d = 1
        /\ L_Edit(sources, d, resume_state)

\* RsyncController.__init__: check_rsync_availability finds the tool or not.
InitLegacy == \E avail \in BOOLEAN : InitFor("legacy", avail, NoneUsed)

NextLegacy ==
    \/ L_StartOrResume
    \/ L_RequestInterrupt
    \/ L_Poll
    \/ L_SourcesDropped
    \/ L_RemoveSources
    \/ L_DestinationDropped
    \/ M_Started
    \/ M_InterruptRest
    \/ \E r \in RunnerIds : QuietThread(r)

SpecLegacy == InitLegacy /\ [][NextLegacy]_vars

\* C8: whenever a run is started as a resume at an index k > 0, the run
\* before it ended by interruption and every item below k was completed in it
\* (exit code 0, or skipped as missing): an item still in progress at the
\* interruption is not skipped by the resume.
C8_ResumeSkipsOnlyDone ==
    [][(nruns' = nruns + 1 /\ runners'[nruns'].start > 0)
       => /\ nruns >= 1
          /\ runners[nruns].interrupted
          /\ runners[nruns].fins = <<FALSE>>
          /\ \A j \in 0..(runners'[nruns'].start - 1) : Done(runners[nruns], j)]_vars

\* C17: can_resume is true iff was_interrupted and
\* 0 <= last_completed_index < total_items - 1, for StateManager.can_resume
\* with every item count and for AppState.can_resume with the current source
\* list; in particular it is false whenever was_interrupted is false.
C17_CanResumeIff ==
    LET rs == resume_state
        Resumable(n) == /\ rs.was_interrupted
                        /\ 0 <= rs.last_completed_index
                        /\ rs.last_completed_index < n - 1
    IN /\ \A n \in 0..(MaxPaths + 1) : L_can_resume(rs, n) <=> Resumable(n)
       /\ can_resume(rs, sources) <=> Resumable(Len(sources))
       /\ ~rs.was_interrupted =>
             /\ \A n \in 0..(MaxPaths + 1) : ~L_can_resume(rs, n)
             /\ ~can_resume(rs, sources)

\* An interrupted run has been handled and the controller can resume.
C17_Witness ==
    /\ nruns >= 1
    /\ runner = 0
    /\ resume_state.was_interrupted
    /\ L_can_resume(resume_state, Len(sources))

\* C18: get_resume_start_index() is last_completed_index + 1 when can_resume
\* is true for the current source count, and 0 in every other case.
C18_StartIndex ==
    L_get_resume_start_index(resume_state) =
        IF L_can_resume(resume_state, Len(sources))
        THEN resume_state.last_completed_index + 1
        ELSE 0

\* C19: whenever a run is started and it is not a resume, the runner is
\* started at index 0 and the resume state is (-1, false).
C19_FreshRunFromZero ==
    [][(nruns' = nruns + 1 /\ ~L_can_resume(resume_state, Len(sources)))
       => /\ runners'[nruns'].start = 0
          /\ resume_state' = [last_completed_index |-> -1,
                              was_interrupted |-> FALSE]]_vars

\* The legacy controller with one run only, without faults, and with one more
\* input change than in SpecLegacy, so that inputs can change after the run
\* has started.
InitLegacyOneRun ==
    \E avail \in BOOLEAN :
        InitFor("legacy", avail, [NoneUsed EXCEPT !.runs = MaxRuns - 1,
                                               !.faults = MaxFaults,
                                               !.edits = -1])

SpecLegacyOneRun == InitLegacyOneRun /\ [][NextLegacy]_vars

\* C22: every change of the sources, the destination or the options leaves
\* the resume state equal to (-1, false).
C22_ChangeResets ==
    [][(sources' # sources \/ destination' # destination \/ options' # options)
       => resume_state' = [last_completed_index |-> -1,
                           was_interrupted |-> FALSE]]_vars

\* RsyncController._update_gui_state: is_running, what the legacy controller
\* has in place of the statuses RUNNING and INTERRUPTING.
L_is_running == runner # 0 /\ is_running(runners[runner])

\* C23: in every reachable state can_run_or_resume() is true iff the tool is
\* available, a destination is set, the status is one of READY,
\* FINISHED_SUCCESS, FINISHED_ERROR, INTERRUPTED (for the legacy controller,
\* which has no status: no run is active) and the sources are non-empty or
\* can_resume() is true.
C23_CanRunIff ==
    IF arch = "legacy"
    THEN L_can_run_or_resume
         <=> /\ rsync_available
             /\ destination # 0
             /\ ~L_is_running
             /\ sources # <<>> \/ L_can_resume(resume_state, Len(sources))
    ELSE can_run_or_resume(rsync_available, sources, destination, status)
         <=> /\ rsync_available
             /\ destination # 0
             /\ status \in {"READY", "FINISHED_SUCCESS", "FINISHED_ERROR",
                            "INTERRUPTED"}
             /\ sources # <<>> \/ can_resume(resume_state, sources)

\* The application without faults and with one more step taken while two
\* runs overlap than in Spec: the poller can fire while the second run is
\* active and the finished event of the first is still on the queue.
InitOverlap ==
    InitFor("app", FALSE, [NoneUsed EXCEPT !.faults = MaxFaults,
                                        !.overlap = -1])

SpecOverlap == InitOverlap /\ [][Next]_vars

\* The first finished event on the queue.
FirstFinishedEv(q) ==
    q[CHOOSE k \in DOMAIN q :
        q[k].t = "finished" /\ \A j \in 1..(k - 1) : q[j].t # "finished"]

\* C24: for each run the manager emits exactly one finished notification:
\* never a second one for the same run, and the manager is not at rest
\* (poller stopped, no runner held) while a run it started has had none;
\* the value emitted is the success of the finished event AND NOT the
\* interruption flag of the runner at that moment, and after the emission
\* the poller is stopped and the runner reference is empty.
C24_OneNotification ==
    /\ [](\A r \in RunnerIds : Len(emitted[r]) <= 1)
    /\ []((Idle /\ ~log_timer /\ runner = 0)
            => \A r \in 1..nruns : emitted[r] # <<>>)
    /\ [][HandlesFinished
          => LET ev == FirstFinishedEv(log_queue)
                 flag == runner # 0 /\ runners[runner].interrupted
             IN /\ emitted' = [emitted EXCEPT ![ev.r] =
                                  Append(@, ev.ok /\ ~flag)]
                /\ ~log_timer'
                /\ runner' = 0]_vars

\* This step is a run request whose probe fails.
ProbeFails ==
    \/ status # "RSYNC_NOT_FOUND" /\ status' = "RSYNC_NOT_FOUND"
    \/ rsync_available /\ ~rsync_available'

\* A run request whose probe fails starts no runner and changes nothing but
\* rsync_available, status and last_error.
C26_OnlyEffects ==
    ProbeFails
    => /\ ~rsync_available'
       /\ status' = "RSYNC_NOT_FOUND"
       /\ last_error' # "None"
       /\ UNCHANGED <<sources, destination, options, resume_state, runners,
                      nruns, runner, log_queue, log_timer, main>>

\* This step is the first run request after the failed probe whose probe
\* succeeds, with sources and a destination set and no run active.
NextRequestAfterFailure ==
    /\ status = "RSYNC_NOT_FOUND"
    /\ ~rsync_available
    /\ rsync_available'
    /\ sources # <<>>
    /\ destination # 0
    /\ runner = 0

\* C26: a run request whose probe fails starts no runner and its only effects
\* are rsync_available = false, status = RSYNC_NOT_FOUND and last_error set;
\* sources, destination, options and resume state are unchanged, and a later
\* run request, once the probe succeeds, is accepted: it starts a run.
C26_ProbeFailureOnlyBlocks ==
    /\ [][C26_OnlyEffects]_vars
    /\ [][NextRequestAfterFailure => nruns' = nruns + 1 /\ runner' # 0]_vars

\* C29: each run starts with an empty event queue, and while the manager
\* holds the runner of a run every queued event was put by that run: no
\* event of an earlier run is queued when a later run starts or is taken
\* from the queue during the drains of a later run.
C29_FreshQueuePerRun ==
    /\ [][nruns' > nruns => log_queue = <<>>]_vars
    /\ [](runner # 0 => \A k \in DOMAIN log_queue : log_queue[k].r = runner)

\* The events queued behind the first finished event.
AfterFirstFinished(q) ==
    LET k == CHOOSE j \in DOMAIN q :
                q[j].t = "finished" /\ \A i \in 1..(j - 1) : q[i].t # "finished"
    IN SubSeq(q, k + 1, Len(q))

\* C30: a drain that handles a finished event processes no event queued
\* behind it: it returns with those events still on the queue, the poller
\* stopped and the runner reference empty.
C30_DrainStopsAtFinished ==
    [][HandlesFinished
       => /\ log_queue' = AfterFirstFinished(log_queue)
          /\ ~log_timer'
          /\ runner' = 0]_vars

\* The log run_all puts after thread.start() was queued behind the finished
\* event of the only run; the drain has handled that event and the log is
\* still on the queue.
C30_Witness ==
    /\ nruns = 1
    /\ emitted[1] # <<>>
    /\ runner = 0
    /\ ~log_timer
    /\ log_queue = <<LogEv(1, "info", "started")>>

\* The largest element of a non-empty set of integers.
MaxOf(S) == CHOOSE x \in S : \A y \in S : y <= x

\* The events a drain takes from the queue before it meets a finished event.
BeforeFirstFinished(q) ==
    IF FirstFinished(q) = "none" THEN q
    ELSE SubSeq(q, 1, Len(q) - Len(AfterFirstFinished(q)) - 1)

\* The indices of the progress events among them.
ProgressIndices(q) == {q[k].i : k \in {j \in DOMAIN q : q[j].t = "progress"}}

\* C31: for every item i a run reaches, progress(i, total) is put before the
\* existence check and before a subprocess is launched for i; the indices of
\* the progress events of one run increase strictly from start_index; and
\* the drain calls update_completion_index(i) for each progress(i, total) it
\* takes from the queue.
C31_ProgressFirst ==
    /\ [](\A r \in RunnerIds :
            LET rec == runners[r]
            IN /\ \A k \in 1..(Len(rec.prog) - 1) : rec.prog[k] < rec.prog[k + 1]
               /\ rec.prog # <<>> => rec.prog[1] = rec.start
               /\ rec.launched \subseteq Range(rec.prog)
               /\ \A k \in DOMAIN rec.oc :
                     rec.oc[k] # "none" => (k - 1) \in Range(rec.prog)
               /\ rec.pc \in {"exists", "launch", "read", "failed"}
                     => rec.prog # <<>> /\ rec.prog[Len(rec.prog)] = rec.i)
    /\ [][(Len(log_queue') < Len(log_queue) /\ ~(HandlesFinished /\ Notified))
          => resume_state'.last_completed_index
               = MaxOf({resume_state.last_completed_index}
                       \cup ProgressIndices(BeforeFirstFinished(log_queue)))]_vars

\* The thread has put progress(0) and progress(1), has launched a subprocess
\* for both items, and the drain has recorded index 1.
C31_Witness ==
    /\ runner = 1
    /\ runners[1].prog = <<0, 1>>
    /\ runners[1].launched = {0, 1}
    /\ resume_state.last_completed_index = 1

\* The events the step puts on the queue (the queue of the runner by itself
\* is never drained).
NewEvents == SubSeq(log_queue', Len(log_queue) + 1, Len(log_queue'))

\* C32: when the interrupt flag is set at the moment the thread sees that the
\* subprocess of an item has exited with code 0, the item counts as
\* interrupted: the thread puts no success event for it, starts no further
\* item, and every finished event of the run carries False.
C32_InterruptBeatsExitZero ==
    /\ [][\A r \in RunnerIds :
            (/\ runners[r].pc = "read"
             /\ runners[r].interrupted
             /\ runners[r].proc = "exit0"
             /\ runners'[r].pc # "read")
            => /\ runners'[r].pc = "failed"
               /\ runners'[r].oc[runners[r].i + 1] = "intr"
               /\ runners'[r].i = runners[r].i
               /\ \A k \in DOMAIN NewEvents :
                     ~(NewEvents[k].t = "log" /\ NewEvents[k].lvl = "success")]_vars
    /\ [](\A r \in RunnerIds : \A k \in DOMAIN runners[r].oc :
            runners[r].oc[k] = "intr"
            => /\ \A j \in Range(runners[r].prog) \cup runners[r].launched : j <= k - 1
               /\ runners[r].i = k - 1
               /\ \A n \in DOMAIN runners[r].fins : runners[r].fins[n] = FALSE)

\* interrupt() found no live subprocess, no subprocess was terminated or
\* failed by itself, yet the launched item 1 counts as interrupted and the
\* run has finished with False: its subprocess had exited with code 0.
C32_Witness ==
    /\ used.faults = 0
    /\ used.lines = 0
    /\ runners[1].interrupted
    /\ runners[1].launched = {0, 1}
    /\ runners[1].oc[1] = "ok"
    /\ runners[1].oc[2] = "intr"
    /\ runners[1].fins = <<FALSE>>
    /\ \E k \in DOMAIN log_queue : log_queue[k].m = "noactive"
    /\ \A k \in DOMAIN log_queue : log_queue[k].m # "sigterm"

\* C33: when the launch of the subprocess for item i fails, the thread puts
\* an error event, the item counts as failed, no item after i is attempted,
\* and the thread ends through its one finished(False) event.
C33_LaunchFailureEndsRun ==
    \A r \in RunnerIds : \A k \in DOMAIN runners[r].oc :
        runners[r].oc[k] = "nolaunch"
        => LET rec == runners[r]
           IN /\ \E n \in DOMAIN log_queue :
                    /\ log_queue[n].t = "error"
                    /\ log_queue[n].m = "notfound"
                    /\ log_queue[n].r = r
              /\ (k - 1) \notin rec.launched
              /\ rec.i = k - 1
              /\ \A j \in Range(rec.prog) \cup rec.launched : j <= k - 1
              /\ \A j \in DOMAIN rec.oc : j > k => rec.oc[j] = "none"
              /\ rec.pc \in {"failed", "fin", "tail", "dead"}
              /\ rec.pc \in {"fin", "tail", "dead"} => ~rec.ov
              /\ rec.fins = IF rec.pc \in {"tail", "dead"} THEN <<FALSE>> ELSE <<>>

\* Item 0 was copied, the launch for item 1 failed, item 2 was never
\* reached, and the thread has ended after finished(False).
C33_Witness ==
    /\ runners[1].total = 3
    /\ runners[1].oc = <<"ok", "nolaunch", "none">>
    /\ runners[1].pc = "dead"
    /\ runners[1].fins = <<FALSE>>

\* The drain when the processing of the k-th event it takes raises: the
\* inner except clause logs an error and the while loop goes on with the
\* next event. The exception is raised before the event has had an effect.
RECURSIVE DrainLoopRaises(_, _)
DrainLoopRaises(a, k) ==
    IF a.q = <<>>
    THEN [a EXCEPT !.log_timer = IF a.runner = 0 THEN FALSE ELSE @]
    ELSE LET ev == Head(a.q)
             b == [a EXCEPT !.q = Tail(@)]
         IN IF k = 1 THEN DrainLoopRaises(handle_log(b, "error"), 0)
            ELSE IF ev.t = "finished" THEN ProcessFinished(b, ev)
            ELSE DrainLoopRaises(ProcessEvent(b, ev), k - 1)

\* The QTimer fires and the processing of one log, progress or error event
\* of this drain raises.
PollRaises ==
    /\ Step
    /\ Idle
    /\ log_timer
    /\ \E k \in 1..Len(BeforeFirstFinished(log_queue)) :
          LET a == DrainLoopRaises(AppRec, k)
          IN /\ status' = a.status
             /\ last_error' = a.last_error
             /\ resume_state' = a.resume_state
             /\ progress' = a.progress
             /\ runner' = a.runner
             /\ log_timer' = a.log_timer
             /\ log_queue' = a.q
             /\ emitted' = a.emitted
    /\ UNCHANGED <<arch, call, runners, nruns, main, rsync_available, sources,
                   destination, options, used>>

\* The application with one run, without faults of the runner, and with
\* drains in which the processing of an event raises.
InitDrainFault ==
    InitFor("app", FALSE, [NoneUsed EXCEPT !.runs = MaxRuns - 1,
                                        !.faults = MaxFaults])

NextDrainFault ==
    \/ Next
    \/ PollRaises

SpecDrainFault == InitDrainFault /\ [][NextDrainFault]_vars

\* C34: a drain in which the processing of an event raises ends with the
\* poller stopped and the reference to the runner cleared.
C34_ExceptionStopsPolling ==
    [][PollRaises => (~log_timer' /\ runner' = 0)]_vars

\* The events of error level: error events and logs of level error.
ErrorLevel(ev) == ev.t = "error" \/ (ev.t = "log" /\ ev.lvl = "error")

\* C36: a source path that does not exist is reported by a log event of
\* level warning and not by an error event, and a drain whose only events of
\* error level, if any, report skipped sources leaves last_error as it was.
C36_MissingIsWarning ==
    /\ [](\A k \in DOMAIN log_queue :
            log_queue[k].m = "missing"
            => log_queue[k].t = "log" /\ log_queue[k].lvl = "warning")
    /\ [][LET d == BeforeFirstFinished(log_queue)
          IN (/\ Len(log_queue') < Len(log_queue)
              /\ ~HandlesFinished
              /\ \E k \in DOMAIN d : d[k].m = "missing"
              /\ \A k \in DOMAIN d : ErrorLevel(d[k]) => d[k].m = "missing")
             => last_error' = last_error]_vars

\* The same for last_error alone: no drain that takes the report of a skipped
\* source and no other event of error level changes last_error.
C36_SkipKeepsLastError ==
    [][LET d == BeforeFirstFinished(log_queue)
       IN (/\ Len(log_queue') < Len(log_queue)
           /\ ~HandlesFinished
           /\ last_error = "None"
           /\ \E k \in DOMAIN d : d[k].m = "missing"
           /\ \A k \in DOMAIN d : ErrorLevel(d[k]) => d[k].m = "missing")
          => last_error' = "None"]_vars

\* A run request, an interrupt request or a change of the inputs is handled.
RequestHandled ==
    \/ RunResumeClicked
    \/ InterruptClicked
    \/ SourcesDropped
    \/ RemoveSources
    \/ DestinationDropped
    \/ OptionsChanged

\* C37: while a runner thread is alive, status is RUNNING or INTERRUPTING,
\* and no run request, interrupt request or change of the inputs handled
\* while a thread is alive moves status to READY, RSYNC_NOT_FOUND or a
\* terminal status.
C37_AliveMeansRunning ==
    /\ [](Alive # {} => status \in {"RUNNING", "INTERRUPTING"})
    /\ [][(Alive # {} /\ RequestHandled /\ status' # status)
          => status' \notin {"READY", "RSYNC_NOT_FOUND", "INTERRUPTED",
                             "FINISHED_SUCCESS", "FINISHED_ERROR"}]_vars

\* The second part by itself: what a request handled during a run does to
\* status.
C37_RequestKeepsRunning ==
    [][(Alive # {} /\ RequestHandled /\ status \in {"RUNNING", "INTERRUPTING"})
       => status' \in {"RUNNING", "INTERRUPTING"}]_vars

\* C38: a run request handled in status IDLE with the tool available, some
\* sources and a destination starts no run and sets status to READY; the
\* same request handled in status READY starts the runner and sets status
\* to RUNNING; and no run is started by a step out of status IDLE.
C38_FirstRequestOnlyReadies ==
    /\ [][(/\ RunResumeClicked
           /\ rsync_available'
           /\ status = "IDLE"
           /\ sources # <<>>
           /\ destination # 0)
          => /\ status' = "READY"
             /\ nruns' = nruns
             /\ runner' = runner
             /\ runners' = runners
             /\ ~log_timer']_vars
    /\ [][(/\ RunResumeClicked
           /\ rsync_available'
           /\ status = "READY"
           /\ sources # <<>>
           /\ destination # 0)
          => /\ status' = "RUNNING"
             /\ nruns' = nruns + 1
             /\ runner' = nruns'
             /\ is_running(runners'[runner'])]_vars
    /\ [][nruns' # nruns => status # "IDLE"]_vars

\* The tool is available, sources and destination are set, a run request
\* was refused (status READY) and no run has been started.
C38_Witness ==
    /\ status = "READY"
    /\ nruns = 0
    /\ rsync_available
    /\ sources # <<>>
    /\ destination # 0
    /\ last_error = "None"

\* C39: the status that follows INTERRUPTING is INTERRUPTED: no step takes
\* status from INTERRUPTING to any other status.
C39_InterruptingThenInterrupted ==
    [][(status = "INTERRUPTING" /\ status' # status)
       => status' = "INTERRUPTED"]_vars

\* The same for the finished notification alone, without run requests: no
\* drain takes status from INTERRUPTING to FINISHED_SUCCESS or
\* FINISHED_ERROR.
C39_NoFinishAfterInterrupting ==
    [][(status = "INTERRUPTING" /\ Len(log_queue') < Len(log_queue))
       => status' \in {"INTERRUPTING", "INTERRUPTED"}]_vars

\* C40: in every state -1 <= last_completed_index <= len(sources) - 1, also
\* when the sources change while progress events of a run are queued.
C40_IndexWithinSources ==
    /\ -1 <= resume_state.last_completed_index
    /\ resume_state.last_completed_index <= Len(sources) - 1

\* ------------------------------- AppState and StateManager by themselves
\* class AppStatus
AllStatus ==
    {"IDLE", "CHECKING_RSYNC", "RSYNC_NOT_FOUND", "READY", "RUNNING",
     "INTERRUPTING", "INTERRUPTED", "FINISHED_SUCCESS", "FINISHED_ERROR"}

\* Largest index passed to update_completion_index.
MaxIndex == 3
\* The indices passed to update_completion_index: below -1, inside and
\* outside the source list.
IndexArgs == -2..MaxIndex
\* Number of distinct paths passed to set_sources.
MaxStatePaths == 2
\* The lists passed to set_sources: unsorted and with repetitions.
SourceArgs ==
    {<<>>} \cup {<<x>> : x \in 1..MaxStatePaths}
           \cup {<<x, y>> : x \in 1..MaxStatePaths, y \in 1..MaxStatePaths}

\* The object is an AppState ("state") or a legacy StateManager ("lstate").
IsAppState == arch = "state"

\* What no method of AppState or StateManager touches.
StateFrame ==
    UNCHANGED <<arch, runners, nruns, log_queue, main, runner, log_timer,
                progress, used, overlap, emitted>>

\* AppState.set_status(new)
S_set_status ==
    /\ IsAppState
    /\ \E new \in AllStatus :
        LET a == set_status(AppRec, new)
        IN /\ status' = a.status
           /\ last_error' = a.last_error
           /\ call' = [op |-> "set_status", arg |-> new,
                       res |-> <<status, last_error>>]
    /\ UNCHANGED <<rsync_available, sources, destination, options, resume_state>>
    /\ StateFrame

\* AppState.set_last_error(error)
S_set_last_error ==
    /\ IsAppState
    /\ \E error \in {"None", "msg"} :
        /\ last_error' = error
        /\ call' = [op |-> "set_last_error", arg |-> error, res |-> 0]
    /\ UNCHANGED <<status, rsync_available, sources, destination, options,
                   resume_state>>
    /\ StateFrame

\* AppState.set_rsync_available(available)
S_set_rsync_available ==
    /\ IsAppState
    /\ \E available \in BOOLEAN :
        /\ rsync_available' = available
        /\ call' = [op |-> "set_rsync_available", arg |-> available, res |-> 0]
    /\ UNCHANGED <<status, last_error, sources, destination, options,
                   resume_state>>
    /\ StateFrame

\* AppState.set_sources(sources)
S_set_sources ==
    /\ IsAppState
    /\ \E srcs \in SourceArgs :
        LET new_sources == SortedList(Range(srcs))
        IN /\ sources' = new_sources
           /\ resume_state' = IF sources # new_sources THEN NoResume
                              ELSE resume_state
           /\ call' = [op |-> "set_sources", arg |-> srcs, res |-> 0]
    /\ UNCHANGED <<status, last_error, rsync_available, destination, options>>
    /\ StateFrame

\* AppState.set_destination(destination)
S_set_destination ==
    /\ IsAppState
    /\ \E dest \in {0, 1} :
        /\ destination' = dest
        /\ resume_state' = IF destination # dest THEN NoResume ELSE resume_state
        /\ call' = [op |-> "set_destination", arg |-> dest, res |-> 0]
    /\ UNCHANGED <<status, last_error, rsync_available, sources, options>>
    /\ StateFrame

\* AppState.set_options(options)
S_set_options ==
    /\ IsAppState
    /\ \E dry \in BOOLEAN :
        LET opts == [DefaultOptions EXCEPT !.dry_run = dry]
        IN /\ options' = opts
           /\ resume_state' = IF options # opts THEN NoResume ELSE resume_state
           /\ call' = [op |-> "set_options", arg |-> dry, res |-> 0]
    /\ UNCHANGED <<status, last_error, rsync_available, sources, destination>>
    /\ StateFrame

\* AppState.update_completion_index(index),
\* StateManager.update_completion_index(index)
S_update_completion_index ==
    /\ \E index \in IndexArgs :
        /\ resume_state' = IF IsAppState
                           THEN update_completion_index(resume_state, index)
                           ELSE L_update_completion_index(resume_state, index)
        /\ call' = [op |-> "update_completion_index", arg |-> index, res |-> 0]
    /\ UNCHANGED <<status, last_error, rsync_available, sources, destination,
                   options>>
    /\ StateFrame

\* AppState.mark_interrupted(), StateManager.mark_interrupted()
S_mark_interrupted ==
    /\ resume_state' = IF IsAppState THEN mark_interrupted(resume_state)
                       ELSE L_mark_interrupted(resume_state)
    /\ call' = [op |-> "mark_interrupted", arg |-> 0, res |-> 0]
    /\ UNCHANGED <<status, last_error, rsync_available, sources, destination,
                   options>>
    /\ StateFrame

\* AppState.reset_resume_state(), StateManager.reset_for_new_run()
S_reset_resume_state ==
    /\ resume_state' = IF IsAppState THEN NoResume ELSE L_reset_for_new_run
    /\ call' = [op |-> "reset_resume_state", arg |-> 0, res |-> 0]
    /\ UNCHANGED <<status, last_error, rsync_available, sources, destination,
                   options>>
    /\ StateFrame

\* AppState.__init__, or the StateManager dataclass defaults.
InitState == \E a \in {"state", "lstate"} : InitFor(a, FALSE, NoneUsed)

NextState ==
    \/ S_set_status
    \/ S_set_last_error
    \/ S_set_rsync_available
    \/ S_set_sources
    \/ S_set_destination
    \/ S_set_options
    \/ S_update_completion_index
    \/ S_mark_interrupted
    \/ S_reset_resume_state

\* The state object alone, its methods called in any order with any arguments.
SpecState == InitState /\ [][NextState]_vars

C25_StatusClearsError ==
    [][call'.op = "set_status"
       => /\ status' = call'.arg
          /\ IF status' # status
                /\ status' \notin {"FINISHED_ERROR", "RSYNC_NOT_FOUND"}
             THEN last_error' = "None"
             ELSE last_error' = last_error]_vars

\* An error was stored in status FINISHED_ERROR and set_status(READY) has
\* cleared it.
C25_Witness ==
    /\ call.op = "set_status"
    /\ call.res = <<"FINISHED_ERROR", "msg">>
    /\ status = "READY"
    /\ last_error = "None"

\* C35: the stored list of sources is in ascending order and has no path
\* twice, whatever lists set_sources was called with.
C35_SourcesSortedUnique ==
    \A j, k \in DOMAIN sources : j < k => sources[j] < sources[k]

\* set_sources was called with a list in descending order and has stored
\* both paths.
C35_Witness ==
    /\ call.op = "set_sources"
    /\ call.arg = <<2, 1>>
    /\ sources = <<1, 2>>

\* ------------------------------------------------------ RsyncCommandBuilder
\* The keys AppState holds in _options.
AppStateKeys == DOMAIN DefaultOptions

\* The keys build_command reads, and the keys AppState holds.
OptionKeys ==
    {"archive", "preserve_permissions", "verbose", "compress", "human",
     "progress", "delete", "dry_run"} \cup AppStateKeys

\* typing.Dict[str, bool]: any subset of the keys, any values.
OptionMappings == UNION {[D -> BOOLEAN] : D \in SUBSET OptionKeys}

\* selected_options.get(key, False)
Get(opts, key) == IF key \in DOMAIN opts THEN opts[key] ELSE FALSE

\* list(dict.fromkeys(command)): the first occurrence of each element, in order.
RECURSIVE FromKeys(_, _)
FromKeys(command, seen) ==
    IF command = <<>> THEN <<>>
    ELSE IF Head(command) \in seen THEN FromKeys(Tail(command), seen)
    ELSE <<Head(command)>> \o FromKeys(Tail(command), seen \cup {Head(command)})

\* if selected_options.get(key, False): command.append(flag)
Flag(opts, key, flag) == IF Get(opts, key) THEN <<flag>> ELSE <<>>

\* The time flags added when archive is off.
TimeFlags == <<"--atimes", "--crtimes", "--omit-dir-times">>

\* A build_command that adds -pgo for preserve_permissions whether or not
\* archive is set.
build_command_PermsAlways(opts) ==
    FromKeys(<<"rsync">>
             \o (IF Get(opts, "archive") THEN <<"-a">>
                 ELSE <<"-rltD">> \o TimeFlags)
             \o Flag(opts, "preserve_permissions", "-pgo")
             \o Flag(opts, "verbose", "-v")
             \o Flag(opts, "compress", "-z")
             \o Flag(opts, "human", "-h")
             \o (IF Get(opts, "progress") THEN <<"--progress">>
                 ELSE <<"--info=progress2">>)
             \o Flag(opts, "delete", "--delete")
             \o Flag(opts, "dry_run", "-n"), {})

\* RsyncCommandBuilder.build_command
build_command(opts) ==
    FromKeys(<<"rsync">>
             \o (IF Get(opts, "archive") THEN <<"-a">>
                 ELSE <<"-rltD">>
                      \o Flag(opts, "preserve_permissions", "-pgo")
                      \o TimeFlags)
             \o Flag(opts, "verbose", "-v")
             \o Flag(opts, "compress", "-z")
             \o Flag(opts, "human", "-h")
             \o (IF Get(opts, "progress") THEN <<"--progress">>
                 ELSE <<"--info=progress2">>)
             \o Flag(opts, "delete", "--delete")
             \o Flag(opts, "dry_run", "-n"), {})

\* Calls of build_command on the same mapping.
MaxBuilds == 2

\* self._command_builder.build_command(options); arg counts the calls.
B_build_command ==
    /\ arch = "builder"
    /\ call.arg < MaxBuilds
    /\ call' = [op |-> "build_command", arg |-> call.arg + 1,
                res |-> build_command(options)]
    /\ UNCHANGED <<arch, emitted, runners, nruns, log_queue, main, runner,
                   log_timer, status, rsync_available, sources, destination,
                   options, resume_state, last_error, progress, used, overlap>>

\* A builder and an options mapping of any shape to call it with.
InitCommand ==
    /\ arch = "builder"
    /\ runners = [r \in RunnerIds |-> NewRunner]
    /\ nruns = 0
    /\ log_queue = <<>>
    /\ main = MainIdle
    /\ runner = 0
    /\ log_timer = FALSE
    /\ status = "IDLE"
    /\ rsync_available = FALSE
    /\ sources = <<>>
    /\ destination = 0
    /\ options \in OptionMappings
    /\ resume_state = NoResume
    /\ last_error = "None"
    /\ progress = [current_item_index |-> -1, total_items |-> 0]
    /\ used = NoneUsed
    /\ overlap = 0
    /\ call = NoCall
    /\ emitted = [r \in RunnerIds |-> <<>>]

NextCommand == B_build_command

SpecCommand == InitCommand /\ [][NextCommand]_vars

\* No element of the list occurs twice.
NoDuplicates(q) == \A j, k \in DOMAIN q : q[j] = q[k] => j = k

C28_FlagsFollowOptions ==
    (call.op = "build_command" /\ DOMAIN options = AppStateKeys)
    => /\ "-v" \in Range(call.res) <=> options.verbose
       /\ "-z" \in Range(call.res) <=> options.compress
       /\ "-h" \in Range(call.res) <=> options.human_readable
       /\ "--delete" \in Range(call.res) <=> options.delete
       /\ "-n" \in Range(call.res) <=> options.dry_run

=============================================================================
